---- MODULE Spec2Model ----
(***************************************************************************)
(* Model of the mmap2 buffer arena (src/io/mmap2/arena.rs) and of the      *)
(* streaming coordinator (src/io/mmap2/stream.rs) of libv4l-rs.            *)
(*                                                                         *)
(* Every handler is one action.  The system calls a handler makes are      *)
(* recorded, in order and with their results, in last.calls (calls made    *)
(* by the handler itself) and last.dropcalls (calls made by the drop glue  *)
(* that runs inside it).  The results of system calls are chosen by the    *)
(* environment.  The caller is single-threaded: it makes a call, takes its *)
(* result (Return) and only then makes the next call.  A handler that      *)
(* panics ends the run (status "panicked"); a panic or abort inside a      *)
(* teardown is the result of that teardown.                                *)
(***************************************************************************)
EXTENDS Integers, Sequences, FiniteSets, TLC

\* ---------------------------------------------------------------- bounds
\* most buffers an arena holds at once
MaxBufs == 2
\* most regions mapped over one run
MaxRegions == 2
\* most caller shares outstanding at once
MaxShares == 1
\* most frames the driver completes over one run
MaxSeq == 2

\* ------------------------------------------------------- program constants
\* the code both Drop impls compare against
ENODEV == 19

\* ------------------------------------------------------- system call results
OK == "OK"
Errs == {"ENODEV", "EIO", "NOCODE"}

\* io::Error::raw_os_error: -1 stands for None (an error without an OS code)
raw_os_error(e) ==
    CASE e = "ENODEV" -> 19
      [] e = "EIO" -> 5
      [] OTHER -> -1

Call(c, a, r) == [call |-> c, arg |-> a, res |-> r]

Ok(v) == [kind |-> "ok", val |-> v, err |-> OK]
Err(e) == [kind |-> "err", val |-> 0, err |-> e]
None == [kind |-> "none", val |-> 0, err |-> OK]
Panic(e) == [kind |-> "panic", val |-> 0, err |-> e]
Abort(e) == [kind |-> "abort", val |-> 0, err |-> e]

Range(s) == {s[i] : i \in 1..Len(s)}

RECURSIVE Sum(_, _)
Sum(f, S) == IF S = {} THEN 0
             ELSE LET x == CHOOSE y \in S : TRUE IN f[x] + Sum(f, S \ {x})

VARIABLES
    status,       \* "live" | "panicked" (a handler panicked) | "dead" (torn down)
    stream,       \* "none": a bare Arena; "live": a StreamInt owns the arena
    bufs,         \* Arena.bufs: the regions the arena tracks, by index
    buf_meta,     \* StreamInt.buf_meta: one sequence number per slot
    active,       \* StreamInt.active
    nextRegion,   \* the next region the map primitive hands out
    mapped,       \* regions mapped and not yet successfully unmapped
    reunmapped,   \* regions passed to unmap after a successful unmap
    shares,       \* caller-held shares per region
    reserved,     \* buffers the driver holds reserved (request-buffers)
    streaming,    \* the driver's streaming state
    queued,       \* the driver's incoming queue (buffer indices)
    seqno,        \* the driver's frame counter
    nexts,        \* next() calls since start() with no other stream call, -1: none
    frames,       \* what those next() calls returned: <<index, sequence>> each
    released,     \* the call that returned last was a successful release()
    last          \* the last handler: its inputs, system calls and result

vars == <<status, stream, bufs, buf_meta, active, nextRegion, mapped, reunmapped,
          shares, reserved, streaming, queued, seqno, nexts, frames, released,
          last>>

Regions == 0..MaxRegions

Idle ==
    [op |-> "idle", arg |-> 0, len |-> 0, streaming |-> FALSE,
     after_release |-> FALSE, meta |-> 0,
     calls |-> <<>>, dropcalls |-> <<>>, res |-> [kind |-> "none", val |-> 0, err |-> "OK"]]

Last(op, arg, calls, dropcalls, res) ==
    [op |-> op, arg |-> arg, len |-> Len(bufs), streaming |-> streaming,
     after_release |-> released, meta |-> 0,
     calls |-> calls, dropcalls |-> dropcalls, res |-> res]

\* ------------------------------------------------------------------ Arena

\* Arena::new
Arena_new == <<>>

\* Arena::len
Arena_len(b) == Len(b)

\* Arena_allocate with the mappings pushed only once all of them succeeded:
\* the ones made before a failure are not tracked
Arena_allocate_push_at_end(b, next, count, grant, failAt, err) ==
    LET ncalls == IF failAt = 0 THEN 1 + 2 * grant ELSE failAt
        res(j) == IF j = failAt THEN err ELSE OK
        calls == [j \in 1..ncalls |->
                    IF j = 1 THEN Call("reqbufs", count, res(j))
                    ELSE IF j % 2 = 0 THEN Call("querybuf", (j \div 2) - 1, res(j))
                    ELSE Call("mmap", next + (j \div 2) - 1, res(j))]
    IN [calls |-> calls,
        bufs |-> IF failAt = 0 THEN b \o [i \in 1..grant |-> next + i - 1] ELSE b,
        granted |-> IF failAt = 1 THEN -1 ELSE grant,
        res |-> IF failAt = 0 THEN Ok(grant) ELSE Err(err)]

\* Arena::allocate.  grant: the count the driver grants; failAt: the system
\* call that fails (0: none, 1: request-buffers, 2i: query-buffer of buffer
\* i, 2i+1: map of buffer i, i in 1..grant); err: its error.
Arena_allocate(b, next, count, grant, failAt, err) ==
    LET ncalls == IF failAt = 0 THEN 1 + 2 * grant ELSE failAt
        nmapped == IF failAt = 0 THEN grant
                   ELSE IF failAt = 1 THEN 0
                   ELSE (failAt \div 2) - 1
        res(j) == IF j = failAt THEN err ELSE OK
        calls == [j \in 1..ncalls |->
                    IF j = 1 THEN Call("reqbufs", count, res(j))
                    ELSE IF j % 2 = 0 THEN Call("querybuf", (j \div 2) - 1, res(j))
                    ELSE Call("mmap", next + (j \div 2) - 1, res(j))]
    IN [calls |-> calls,
        bufs |-> b \o [i \in 1..nmapped |-> next + i - 1],
        granted |-> IF failAt = 1 THEN -1 ELSE grant,
        res |-> IF failAt = 0 THEN Ok(grant) ELSE Err(err)]

\* Arena_release with the device-gone error swallowed, as the Drop impl does
Arena_release_swallow(b, failAt, err) ==
    LET n == Len(b)
        k == IF failAt \in 1..n THEN failAt ELSE n
        unmaps == [i \in 1..k |-> Call("munmap", b[i], IF i = failAt THEN err ELSE OK)]
        calls == IF failAt \in 1..n THEN unmaps
                 ELSE Append(unmaps, Call("reqbufs", 0, IF failAt = n + 1 THEN err ELSE OK))
        ok == failAt \notin 1..(n + 1)
    IN [calls |-> calls,
        bufs |-> IF ok THEN <<>> ELSE b,
        res |-> IF ok \/ err = "ENODEV" THEN Ok(0) ELSE Err(err)]

\* Arena::release.  failAt: the system call that fails (0: none, i in
\* 1..len: the unmap of bufs[i], len+1: request-buffers(0)); err: its error.
Arena_release(b, failAt, err) ==
    LET n == Len(b)
        k == IF failAt \in 1..n THEN failAt ELSE n
        unmaps == [i \in 1..k |-> Call("munmap", b[i], IF i = failAt THEN err ELSE OK)]
        calls == IF failAt \in 1..n THEN unmaps
                 ELSE Append(unmaps, Call("reqbufs", 0, IF failAt = n + 1 THEN err ELSE OK))
        ok == failAt \notin 1..(n + 1)
    IN [calls |-> calls,
        bufs |-> IF ok THEN <<>> ELSE b,
        res |-> IF ok THEN Ok(0) ELSE Err(err)]

\* Arena::get: Some(Arc::clone(self.bufs.get(index).unwrap()))
Arena_get(b, index) ==
    IF index < Len(b) THEN Ok(b[index + 1]) ELSE Panic(OK)

\* Arena_drop with no special case for the device-gone error
Arena_drop_no_enodev(b, failAt, err) ==
    IF b = <<>> THEN [calls |-> <<>>, bufs |-> b, res |-> Ok(0)]
    ELSE LET r == Arena_release(b, failAt, err)
         IN IF r.res.kind = "err"
            THEN [calls |-> r.calls, bufs |-> r.bufs, res |-> Panic(r.res.err)]
            ELSE [calls |-> r.calls, bufs |-> r.bufs, res |-> Ok(0)]

\* Arena_drop with the panic inside the `if let Some(code)`: an error that
\* carries no OS code is ignored
Arena_drop_panic_in_if_let(b, failAt, err) ==
    IF b = <<>> THEN [calls |-> <<>>, bufs |-> b, res |-> Ok(0)]
    ELSE LET r == Arena_release(b, failAt, err)
         IN IF r.res.kind = "err" /\ raw_os_error(r.res.err) # -1
                /\ raw_os_error(r.res.err) # ENODEV
            THEN [calls |-> r.calls, bufs |-> r.bufs, res |-> Panic(r.res.err)]
            ELSE [calls |-> r.calls, bufs |-> r.bufs, res |-> Ok(0)]

\* impl Drop for Arena
Arena_drop(b, failAt, err) ==
    IF b = <<>> THEN [calls |-> <<>>, bufs |-> b, res |-> Ok(0)]
    ELSE LET r == Arena_release(b, failAt, err)
         IN IF r.res.kind = "err"
            THEN IF raw_os_error(r.res.err) # -1 /\ raw_os_error(r.res.err) = ENODEV
                 THEN [calls |-> r.calls, bufs |-> r.bufs, res |-> Ok(0)]
                 ELSE [calls |-> r.calls, bufs |-> r.bufs, res |-> Panic(r.res.err)]
            ELSE [calls |-> r.calls, bufs |-> r.bufs, res |-> Ok(0)]

\* -------------------------------------------------------------- StreamInt

\* StreamInt_with_buffers with the metadata sized by the requested buf_count
\* instead of the count allocate returned
StreamInt_with_buffers_meta_by_request(next, count, grant, failAt, err, dropFailAt, dropErr) ==
    LET a == Arena_allocate(Arena_new, next, count, grant, failAt, err)
    IN IF a.res.kind = "err"
       THEN LET d == Arena_drop(a.bufs, dropFailAt, dropErr)
            IN [built |-> FALSE, calls |-> a.calls, dropcalls |-> d.calls,
                granted |-> a.granted, bufs |-> d.bufs, buf_meta |-> <<>>,
                res |-> IF d.res.kind = "panic" THEN d.res ELSE a.res]
       ELSE [built |-> TRUE, calls |-> a.calls, dropcalls |-> <<>>,
             granted |-> a.granted, bufs |-> a.bufs,
             buf_meta |-> [i \in 1..count |-> 0],
             res |-> a.res]

\* StreamInt::with_buffers.  The arena is a local until the StreamInt is
\* built: when allocate fails, `?` returns its error and drops the arena
\* (dropFailAt, dropErr: the failing call of that drop's release).
StreamInt_with_buffers(next, count, grant, failAt, err, dropFailAt, dropErr) ==
    LET a == Arena_allocate(Arena_new, next, count, grant, failAt, err)
    IN IF a.res.kind = "err"
       THEN LET d == Arena_drop(a.bufs, dropFailAt, dropErr)
            IN [built |-> FALSE, calls |-> a.calls, dropcalls |-> d.calls,
                granted |-> a.granted, bufs |-> d.bufs, buf_meta |-> <<>>,
                res |-> IF d.res.kind = "panic" THEN d.res ELSE a.res]
       ELSE [built |-> TRUE, calls |-> a.calls, dropcalls |-> <<>>,
             granted |-> a.granted, bufs |-> a.bufs,
             buf_meta |-> [i \in 1..a.res.val |-> 0],
             res |-> a.res]

\* StreamInt_queue with v4l2_buf.index left at its zeroed value
StreamInt_queue_index_unset(index, r) ==
    [calls |-> <<Call("qbuf", 0, r)>>,
     res |-> IF r = OK THEN Ok(0) ELSE Err(r)]

\* StreamInt::queue
StreamInt_queue(index, r) ==
    [calls |-> <<Call("qbuf", index, r)>>,
     res |-> IF r = OK THEN Ok(0) ELSE Err(r)]

\* StreamInt_start with the loop one short (0..len-1): the last index is
\* never queued
StreamInt_start_one_short(b, failAt, err) ==
    LET n == Arena_len(b)
        m == IF n = 0 THEN 0 ELSE n - 1
        ncalls == IF failAt \in 1..(m + 1) THEN failAt ELSE m + 1
        calls == [j \in 1..ncalls |->
                    IF j = 1 THEN Call("streamon", 0, IF failAt = 1 THEN err ELSE OK)
                    ELSE StreamInt_queue(j - 2, IF failAt = j THEN err ELSE OK).calls[1]]
    IN [calls |-> calls,
        res |-> IF failAt \in 1..(m + 1) THEN Err(err) ELSE Ok(0)]

\* StreamInt::start.  failAt: the system call that fails (0: none,
\* 1: stream-on, i+2: the queue call of index i); err: its error.
StreamInt_start(b, failAt, err) ==
    LET n == Arena_len(b)
        ncalls == IF failAt \in 1..(n + 1) THEN failAt ELSE n + 1
        calls == [j \in 1..ncalls |->
                    IF j = 1 THEN Call("streamon", 0, IF failAt = 1 THEN err ELSE OK)
                    ELSE StreamInt_queue(j - 2, IF failAt = j THEN err ELSE OK).calls[1]]
    IN [calls |-> calls,
        res |-> IF failAt \in 1..(n + 1) THEN Err(err) ELSE Ok(0)]

\* StreamInt::stop (private: its one caller is the Drop impl)
StreamInt_stop(r) ==
    [calls |-> <<Call("streamoff", 0, r)>>,
     res |-> IF r = OK THEN Ok(0) ELSE Err(r)]

\* Stream::stop: self.stream_int.start()
Stream_stop(b, failAt, err) == StreamInt_start(b, failAt, err)

\* StreamInt_dequeue returning index 0 instead of the index the driver wrote
StreamInt_dequeue_index_unread(r, index, sequence) ==
    [calls |-> <<Call("dqbuf", 0, r)>>,
     res |-> IF r = OK THEN Ok(0) ELSE Err(r),
     meta |-> sequence]

\* StreamInt::dequeue.  r: the result of dequeue-buffer; index, sequence: what
\* the driver wrote into the v4l2_buffer.  buf_meta is not written.
StreamInt_dequeue(r, index, sequence) ==
    [calls |-> <<Call("dqbuf", 0, r)>>,
     res |-> IF r = OK THEN Ok(index) ELSE Err(r),
     meta |-> sequence]

\* StreamInt::get
StreamInt_get(b, index) == Arena_get(b, index)

\* StreamInt::get_meta
StreamInt_get_meta(meta, index) ==
    IF index < Len(meta) THEN Ok(meta[index + 1]) ELSE None

\* Buffer::from_queue, the body of Stream::next: one dequeue, the metadata
\* recorded in the slot of the index, a share of the region of that index.
\* The previously returned index is not queued again.
Buffer_from_queue(b, meta, r, index, sequence) ==
    LET d == StreamInt_dequeue(r, index, sequence)
    IN IF d.res.kind = "err"
       THEN [calls |-> d.calls, res |-> d.res, buf_meta |-> meta,
             index |-> 0, meta |-> 0]
       ELSE [calls |-> d.calls,
             res |-> StreamInt_get(b, d.res.val),
             index |-> d.res.val, meta |-> d.meta,
             buf_meta |-> IF d.res.val < Len(meta)
                          THEN [meta EXCEPT ![d.res.val + 1] = d.meta] ELSE meta]

\* StreamInt_drop with the arena released before the stream is stopped
StreamInt_drop_unmap_first(b, soRes, unwind, failAt, err) ==
    LET s == StreamInt_stop(soRes)
        d == Arena_drop(b, failAt, err)
        fatal == /\ s.res.kind = "err"
                 /\ ~(raw_os_error(s.res.err) # -1 /\ raw_os_error(s.res.err) = ENODEV)
    IN [calls |-> d.calls \o s.calls, bufs |-> d.bufs,
        res |-> IF d.res.kind = "panic" THEN d.res
                ELSE IF fatal THEN Panic(s.res.err) ELSE d.res]

\* impl Drop for StreamInt, followed by the drop of its fields (the arena).
\* soRes: the result of stream-off; unwind: whether a panic unwinds (and so
\* still drops the arena) or aborts at once; failAt, err: as in Arena_drop.
StreamInt_drop(b, soRes, unwind, failAt, err) ==
    LET s == StreamInt_stop(soRes)
        fatal == /\ s.res.kind = "err"
                 /\ ~(raw_os_error(s.res.err) # -1 /\ raw_os_error(s.res.err) = ENODEV)
    IN IF fatal /\ ~unwind
       THEN [calls |-> s.calls, bufs |-> b, res |-> Abort(s.res.err)]
       ELSE LET d == Arena_drop(b, failAt, err)
            IN [calls |-> s.calls \o d.calls, bufs |-> d.bufs,
                res |-> IF fatal
                        THEN IF d.res.kind = "panic"
                             THEN Abort(d.res.err) ELSE Panic(s.res.err)
                        ELSE d.res]

\* what the driver accepts: a queue call succeeds only for a reserved buffer
\* that is not in the incoming queue
Queued(calls) ==
    SelectSeq([i \in 1..Len(calls) |-> calls[i]],
              LAMBDA c : c.call = "qbuf" /\ c.res = OK)
QueuedIdx(calls) == [i \in 1..Len(Queued(calls)) |-> Queued(calls)[i].arg]
DriverAccepts(calls) ==
    \A i \in 1..Len(calls) :
        (calls[i].call = "qbuf" /\ calls[i].res = OK)
            => (calls[i].arg < reserved /\ calls[i].arg \notin Range(queued))
StreamedOn(calls) ==
    \E i \in 1..Len(calls) : calls[i].call = "streamon" /\ calls[i].res = OK

\* ------------------------------------------- effects of a log of system calls
Unmapped(calls) ==
    {calls[i].arg : i \in {j \in 1..Len(calls) :
                              calls[j].call = "munmap" /\ calls[j].res = OK}}
UnmapArgs(calls) ==
    {calls[i].arg : i \in {j \in 1..Len(calls) : calls[j].call = "munmap"}}
Mapped(calls) ==
    {calls[i].arg : i \in {j \in 1..Len(calls) :
                              calls[j].call = "mmap" /\ calls[j].res = OK}}
Freed(calls) ==
    \E i \in 1..Len(calls) :
        calls[i].call = "reqbufs" /\ calls[i].arg = 0 /\ calls[i].res = OK
StreamedOff(calls) ==
    \E i \in 1..Len(calls) : calls[i].call = "streamoff" /\ calls[i].res = OK

Init ==
    /\ status = "live"
    /\ stream = "none"
    /\ bufs = Arena_new
    /\ buf_meta = <<>>
    /\ active = FALSE
    /\ nextRegion = 0
    /\ mapped = {}
    /\ reunmapped = {}
    /\ shares = [r \in Regions |-> 0]
    /\ reserved = 0
    /\ streaming = FALSE
    /\ queued = <<>>
    /\ seqno = 0
    /\ nexts = -1
    /\ frames = <<>>
    /\ released = FALSE
    /\ last = Idle

\* In every action below, err is chosen only when a call fails (failAt # 0),
\* and a failing call is chosen only among the calls the handler reaches.

\* Arena::allocate called on a bare arena
Allocate ==
    /\ last = Idle
    /\ status = "live" /\ stream = "none"
    /\ \E count \in 1..MaxBufs, grant \in 0..MaxBufs :
       \E failAt \in 0..(2 * grant + 1), err \in Errs :
         /\ Len(bufs) + grant <= MaxBufs
         /\ nextRegion + grant <= MaxRegions
         /\ failAt = 0 => err = "EIO"
         /\ LET a == Arena_allocate(bufs, nextRegion, count, grant, failAt, err)
            IN /\ bufs' = a.bufs
               /\ nextRegion' = nextRegion + Cardinality(Mapped(a.calls))
               /\ mapped' = mapped \cup Mapped(a.calls)
               /\ reserved' = IF a.granted = -1 THEN reserved ELSE a.granted
               /\ last' = Last("allocate", count, a.calls, <<>>, a.res)
    /\ UNCHANGED <<status, stream, buf_meta, active, reunmapped, shares,
                   streaming, queued, seqno, nexts, frames>>
    /\ released' = FALSE

\* Arena::release called on a bare arena
Release ==
    /\ last = Idle
    /\ status = "live" /\ stream = "none"
    /\ \E failAt \in 0..(Len(bufs) + 1), err \in Errs :
         LET r == Arena_release(bufs, failAt, err)
         IN /\ failAt = 0 => err = "EIO"
            /\ bufs' = r.bufs
            /\ mapped' = mapped \ Unmapped(r.calls)
            /\ reunmapped' = reunmapped \cup (UnmapArgs(r.calls) \ mapped)
            /\ reserved' = IF Freed(r.calls) THEN 0 ELSE reserved
            /\ released' = (r.res.kind = "ok")
            /\ last' = Last("release", 0, r.calls, <<>>, r.res)
    /\ UNCHANGED <<status, stream, buf_meta, active, nextRegion, shares,
                   streaming, queued, seqno, nexts, frames>>

\* Arena::get on a bare arena
Get ==
    /\ last = Idle
    /\ status = "live" /\ stream = "none"
    /\ \E index \in 0..MaxBufs :
         LET g == Arena_get(bufs, index)
         IN /\ g.kind = "ok" => Sum(shares, Regions) < MaxShares
            /\ shares' = IF g.kind = "ok"
                         THEN [shares EXCEPT ![g.val] = @ + 1] ELSE shares
            /\ status' = IF g.kind = "panic" THEN "panicked" ELSE status
            /\ last' = Last("get", index, <<>>, <<>>, g)
    /\ UNCHANGED <<stream, bufs, buf_meta, active, nextRegion, mapped, reunmapped,
                   reserved, streaming, queued, seqno, nexts, frames>>
    /\ released' = FALSE

\* a caller drops a share it holds (Arc::drop; ManuallyDrop: no unmap)
DropShare ==
    /\ last = Idle
    /\ \E r \in Regions :
         /\ shares[r] > 0
         /\ shares' = [shares EXCEPT ![r] = @ - 1]
    /\ UNCHANGED <<status, stream, bufs, buf_meta, active, nextRegion, mapped,
                   reunmapped, reserved, streaming, queued, seqno, nexts, frames, released, last>>

\* the caller takes the result of the call it made
Return ==
    /\ last # Idle
    /\ last' = Idle
    /\ UNCHANGED <<status, stream, bufs, buf_meta, active, nextRegion, mapped,
                   reunmapped, shares, reserved, streaming, queued, seqno, nexts, frames, released>>

\* a bare Arena goes out of scope
DropArena ==
    /\ last = Idle
    /\ status = "live" /\ stream = "none"
    /\ \E failAt \in 0..(Len(bufs) + 1), err \in Errs :
         LET d == Arena_drop(bufs, failAt, err)
             res == d.res
         IN /\ failAt = 0 => err = "EIO"
            /\ bufs = <<>> => failAt = 0
            /\ bufs' = d.bufs
            /\ mapped' = mapped \ Unmapped(d.calls)
            /\ reunmapped' = reunmapped \cup (UnmapArgs(d.calls) \ mapped)
            /\ reserved' = IF Freed(d.calls) THEN 0 ELSE reserved
            /\ last' = Last("drop_arena", 0, <<>>, d.calls, res)
    /\ status' = "dead"
    /\ UNCHANGED <<stream, buf_meta, active, nextRegion, shares,
                   streaming, queued, seqno, nexts, frames>>
    /\ released' = FALSE

\* StreamInt::with_buffers on a device with a fresh arena
WithBuffers ==
    /\ last = Idle
    /\ status = "live" /\ stream = "none"
    /\ bufs = Arena_new /\ nextRegion = 0 /\ reserved = 0
    /\ \E count \in 1..MaxBufs, grant \in 0..MaxBufs :
       \E failAt \in 0..(2 * grant + 1), err \in Errs :
       \E dropFailAt \in 0..(grant + 1), dropErr \in Errs :
         /\ nextRegion + grant <= MaxRegions
         /\ failAt = 0 => err = "EIO"
         /\ dropFailAt = 0 => dropErr = "EIO"
         /\ LET w == StreamInt_with_buffers(nextRegion, count, grant, failAt, err,
                                            dropFailAt, dropErr)
            IN \* the drop's release runs only after a failure that left mappings
               /\ (failAt = 0 \/ Mapped(w.calls) = {}) => dropFailAt = 0
               /\ dropFailAt <= Cardinality(Mapped(w.calls)) + 1
               /\ bufs' = w.bufs
               /\ buf_meta' = w.buf_meta
               /\ stream' = IF w.built THEN "live" ELSE "none"
               /\ status' = IF w.built THEN "live" ELSE "dead"
               /\ nextRegion' = nextRegion + Cardinality(Mapped(w.calls))
               /\ mapped' = (mapped \cup Mapped(w.calls)) \ Unmapped(w.dropcalls)
               /\ reserved' = IF Freed(w.dropcalls) THEN 0
                              ELSE IF w.granted = -1 THEN reserved ELSE w.granted
               /\ last' = Last("with_buffers", count, w.calls, w.dropcalls, w.res)
    /\ UNCHANGED <<active, reunmapped, shares, streaming, queued, seqno, nexts, frames>>
    /\ released' = FALSE

\* Stream::start
Start ==
    /\ last = Idle
    /\ status = "live" /\ stream = "live"
    /\ \E failAt \in 0..(Len(bufs) + 1), err \in Errs :
         LET s == StreamInt_start(bufs, failAt, err)
         IN /\ failAt = 0 => err = "EIO"
            /\ DriverAccepts(s.calls)
            /\ streaming' = (streaming \/ StreamedOn(s.calls))
            /\ queued' = queued \o QueuedIdx(s.calls)
            /\ nexts' = IF s.res.kind = "ok" THEN 0 ELSE -1
            /\ frames' = <<>>
            /\ last' = Last("start", 0, s.calls, <<>>, s.res)
    /\ UNCHANGED <<status, stream, bufs, buf_meta, active, nextRegion, mapped,
                   reunmapped, shares, reserved, seqno, released>>

\* Stream::stop
Stop ==
    /\ last = Idle
    /\ status = "live" /\ stream = "live"
    /\ \E failAt \in 0..(Len(bufs) + 1), err \in Errs :
         LET s == Stream_stop(bufs, failAt, err)
         IN /\ failAt = 0 => err = "EIO"
            /\ DriverAccepts(s.calls)
            /\ streaming' = ((streaming \/ StreamedOn(s.calls)) /\ ~StreamedOff(s.calls))
            /\ queued' = IF StreamedOff(s.calls) THEN <<>>
                         ELSE queued \o QueuedIdx(s.calls)
            /\ nexts' = -1
            /\ frames' = <<>>
            /\ last' = Last("stop", 0, s.calls, <<>>, s.res)
    /\ UNCHANGED <<status, stream, bufs, buf_meta, active, nextRegion, mapped,
                   reunmapped, shares, reserved, seqno, released>>

\* StreamInt::queue
Queue ==
    /\ last = Idle
    /\ status = "live" /\ stream = "live"
    /\ \E index \in 0..MaxBufs, r \in {OK} \cup Errs :
         LET q == StreamInt_queue(index, r)
         IN /\ DriverAccepts(q.calls)
            /\ queued' = queued \o QueuedIdx(q.calls)
            /\ last' = Last("queue", index, q.calls, <<>>, q.res)
    /\ nexts' = -1
    /\ frames' = <<>>
    /\ UNCHANGED <<status, stream, bufs, buf_meta, active, nextRegion, mapped,
                   reunmapped, shares, reserved, streaming, seqno, released>>

\* the outcomes of one dequeue-buffer call: an error, or the head of the
\* incoming queue completed with the next frame number (it blocks while the
\* queue is empty).  The index the call reports is the driver's: a driver
\* that misreports it may name a buffer outside the arena.
DqbufOutcomes ==
    [r : Errs, index : {0}, sequence : {0}]
    \cup (IF streaming /\ queued # <<>> /\ seqno < MaxSeq
          THEN [r : {OK}, index : {Head(queued)} \cup (Len(bufs)..MaxBufs),
                sequence : {seqno + 1}]
          ELSE {})

\* StreamInt::dequeue
Dequeue ==
    /\ last = Idle
    /\ status = "live" /\ stream = "live"
    /\ \E o \in DqbufOutcomes :
         LET d == StreamInt_dequeue(o.r, o.index, o.sequence)
         IN /\ queued' = IF o.r = OK THEN Tail(queued) ELSE queued
            /\ seqno' = IF o.r = OK THEN o.sequence ELSE seqno
            /\ last' = [Last("dequeue", 0, d.calls, <<>>, d.res) EXCEPT !.meta = d.meta]
    /\ nexts' = -1
    /\ frames' = <<>>
    /\ UNCHANGED <<status, stream, bufs, buf_meta, active, nextRegion, mapped,
                   reunmapped, shares, reserved, streaming, released>>

\* Stream::next
NextFrame ==
    /\ last = Idle
    /\ status = "live" /\ stream = "live"
    /\ \E o \in DqbufOutcomes :
         LET f == Buffer_from_queue(bufs, buf_meta, o.r, o.index, o.sequence)
         IN /\ f.res.kind = "ok" => Sum(shares, Regions) < MaxShares
            /\ queued' = IF o.r = OK THEN Tail(queued) ELSE queued
            /\ seqno' = IF o.r = OK THEN o.sequence ELSE seqno
            /\ buf_meta' = f.buf_meta
            /\ shares' = IF f.res.kind = "ok"
                         THEN [shares EXCEPT ![f.res.val] = @ + 1] ELSE shares
            /\ status' = IF f.res.kind = "panic" THEN "panicked" ELSE status
            /\ nexts' = IF nexts >= 0 /\ f.res.kind = "ok" THEN nexts + 1 ELSE nexts
            /\ frames' = IF nexts >= 0 /\ f.res.kind = "ok"
                         THEN Append(frames, <<f.index, f.meta>>) ELSE frames
            /\ last' = [Last("next", 0, f.calls, <<>>, f.res)
                           EXCEPT !.arg = f.index, !.meta = f.meta]
    /\ UNCHANGED <<stream, bufs, active, nextRegion, mapped, reunmapped,
                   reserved, streaming, released>>

\* StreamInt::get
StreamGet ==
    /\ last = Idle
    /\ status = "live" /\ stream = "live"
    /\ \E index \in 0..MaxBufs :
         LET g == StreamInt_get(bufs, index)
         IN /\ g.kind = "ok" => Sum(shares, Regions) < MaxShares
            /\ shares' = IF g.kind = "ok"
                         THEN [shares EXCEPT ![g.val] = @ + 1] ELSE shares
            /\ status' = IF g.kind = "panic" THEN "panicked" ELSE status
            /\ last' = Last("get", index, <<>>, <<>>, g)
    /\ UNCHANGED <<stream, bufs, buf_meta, active, nextRegion, mapped, reunmapped,
                   reserved, streaming, queued, seqno, nexts, frames, released>>

\* the last owner of the StreamInt lets go of it: Drop runs, then the fields
\* (arena, buf_meta) are dropped
DropStream ==
    /\ last = Idle
    /\ status = "live" /\ stream = "live"
    /\ \E soRes \in {OK} \cup Errs, unwind \in BOOLEAN :
       \E failAt \in 0..(Len(bufs) + 1), err \in Errs :
         LET d == StreamInt_drop(bufs, soRes, unwind, failAt, err)
             res == d.res
         IN /\ failAt = 0 => err = "EIO"
            /\ (bufs = <<>> \/ Len(d.calls) = 1) => failAt = 0
            /\ (soRes \in {OK, "ENODEV"}) => unwind
            /\ bufs' = d.bufs
            /\ mapped' = mapped \ Unmapped(d.calls)
            /\ reunmapped' = reunmapped \cup (UnmapArgs(d.calls) \ mapped)
            /\ reserved' = IF Freed(d.calls) THEN 0 ELSE reserved
            /\ streaming' = (streaming /\ ~StreamedOff(d.calls))
            /\ queued' = IF StreamedOff(d.calls) THEN <<>> ELSE queued
            /\ last' = Last("drop_stream", 0, <<>>, d.calls, res)
    /\ status' = "dead"
    /\ buf_meta' = <<>>
    /\ nexts' = -1
    /\ frames' = <<>>
    /\ UNCHANGED <<stream, active, nextRegion, shares, seqno, released>>

Next ==
    \/ Allocate
    \/ Release
    \/ Get
    \/ DropShare
    \/ DropArena
    \/ WithBuffers
    \/ Start
    \/ Stop
    \/ Queue
    \/ Dequeue
    \/ NextFrame
    \/ StreamGet
    \/ DropStream
    \/ Return

Spec == Init /\ [][Next]_vars
\* ================================================================= claims

HasCall(calls, c) == \E i \in 1..Len(calls) : calls[i].call = c
HasRes(calls, r) == \E i \in 1..Len(calls) : calls[i].res = r
TeardownOps == {"drop_stream", "drop_arena", "with_buffers"}
Fatal == {"panic", "abort"}

\* C1: in the teardown of a StreamInt, every unmap is preceded by the
\* stream-off call.
C1_StreamOffBeforeUnmap ==
    last.op = "drop_stream" =>
        \A i \in 1..Len(last.dropcalls) :
            last.dropcalls[i].call = "munmap" =>
                \E j \in 1..(i - 1) : last.dropcalls[j].call = "streamoff"

C1_Witness ==
    /\ last.op = "drop_stream"
    /\ last.len >= 2
    /\ HasCall(last.dropcalls, "munmap")

\* C2: no handler unmaps a region of which a caller holds a share.
C2_NoUnmapWhileShared ==
    \A r \in Unmapped(last.calls \o last.dropcalls) : shares[r] = 0

\* C3: no region that was successfully unmapped is passed to unmap again.
C3_UnmapAtMostOnce ==
    reunmapped = {}

\* C4: after a successful start() on a stream with buffers, a caller that
\* calls only next() never leaves the driver's incoming queue empty, so the
\* next call can return.
C4_NextNeverDrainsQueue ==
    (status = "live" /\ stream = "live" /\ nexts >= 0 /\ Len(bufs) > 0)
        => queued # <<>>

\* C5: get(index) returns none when index >= len(), without a panic, and a
\* share of the region at index when index < len().
C5_GetOutOfRangeIsNone ==
    last.op = "get" =>
        IF last.arg >= last.len
        THEN last.res.kind = "none"
        ELSE last.res.kind = "ok" /\ last.res.val = bufs[last.arg + 1]

\* C6: the public stop on an active stream issues stream-off, issues no
\* stream-on and queues no buffer, and leaves the stream stopped.
C6_StopIssuesStreamOff ==
    (last.op = "stop" /\ last.streaming) =>
        /\ HasCall(last.calls, "streamoff")
        /\ ~HasCall(last.calls, "streamon")
        /\ ~HasCall(last.calls, "qbuf")
        /\ last.res.kind = "ok" => ~streaming

\* C7: start() issues stream-on first, then one queue call per index in
\* ascending order; on success every index in 0..len-1 was queued exactly
\* once and is in the incoming queue, with no dequeue in between; a failing
\* call is the last call made and its error is the result.
C7_StartQueuesAscending ==
    last.op = "start" =>
        LET c == last.calls
            n == last.len
        IN /\ Len(c) >= 1
           /\ c[1].call = "streamon"
           /\ \A j \in 2..Len(c) : c[j].call = "qbuf" /\ c[j].arg = j - 2
           /\ \A j \in 1..(Len(c) - 1) : c[j].res = OK
           /\ last.res.kind \in {"ok", "err"}
           /\ last.res.kind = "ok" =>
                /\ Len(c) = n + 1
                /\ c[Len(c)].res = OK
                /\ \A i \in 0..(n - 1) : i \in Range(queued)
           /\ last.res.kind = "err" =>
                /\ c[Len(c)].res # OK
                /\ c[Len(c)].res = last.res.err

C7_Witness ==
    /\ last.op = "start"
    /\ last.res.kind = "ok"
    /\ last.len >= 2

\* C8: a teardown in which every failing call fails with the device-gone
\* error completes: it neither panics nor aborts, and a dropped Arena or
\* StreamInt reports success.
C8_DeviceGoneTeardownSucceeds ==
    (/\ last.op \in TeardownOps
     /\ HasRes(last.dropcalls, "ENODEV")
     /\ \A i \in 1..Len(last.dropcalls) : last.dropcalls[i].res \in {OK, "ENODEV"})
        => /\ last.res.kind \notin Fatal
           /\ last.op # "with_buffers" => last.res.kind = "ok"

C8_Witness ==
    /\ last.op = "drop_stream"
    /\ \E i, j \in 1..Len(last.dropcalls) :
          /\ last.dropcalls[i].call = "streamoff" /\ last.dropcalls[i].res = "ENODEV"
          /\ last.dropcalls[j].call = "munmap" /\ last.dropcalls[j].res = "ENODEV"

\* C9: an explicit release() or stop() in which a system call fails with the
\* device-gone error returns that error.
C9_ExplicitErrorSurfaced ==
    (last.op \in {"release", "stop"} /\ HasRes(last.calls, "ENODEV"))
        => (last.res.kind = "err" /\ last.res.err = "ENODEV")

C9_Witness ==
    /\ last.op = "release"
    /\ \E i \in 1..Len(last.calls) :
          last.calls[i].call = "munmap" /\ last.calls[i].res = "ENODEV"

\* C10: a teardown in which a call fails with an error other than device-gone
\* (an error without an OS code included) panics or aborts.
C10_OtherErrorsFatal ==
    (/\ last.op \in TeardownOps
     /\ \E i \in 1..Len(last.dropcalls) : last.dropcalls[i].res \notin {OK, "ENODEV"})
        => last.res.kind \in Fatal

C10_Witness ==
    /\ last.op = "drop_stream"
    /\ last.res.kind \in Fatal
    /\ \E i \in 1..Len(last.dropcalls) :
          last.dropcalls[i].call = "munmap" /\ last.dropcalls[i].res = "NOCODE"

\* C11: a successful allocate returns a count greater than zero, and len()
\* equals that count right after it, whatever the driver granted and whatever
\* the arena held before the call.
C11_AllocateCountIsLen ==
    (last.op \in {"allocate", "with_buffers"} /\ last.res.kind = "ok") =>
        /\ last.res.val > 0
        /\ Arena_len(bufs) = last.res.val

\* C12: a successful release leaves len() at 0, and a release called right
\* after a successful release succeeds too and leaves len() at 0.
C12_ReleaseIdempotent ==
    /\ (last.op = "release" /\ last.res.kind = "ok") => Arena_len(bufs) = 0
    /\ (last.op = "release" /\ last.after_release) =>
           (last.res.kind = "ok" /\ Arena_len(bufs) = 0)

\* C13: release on an arena that holds no mapping succeeds and issues no
\* system call.
C13_EmptyReleaseNoSyscall ==
    (last.op = "release" /\ last.len = 0) =>
        (last.res.kind = "ok" /\ last.calls = <<>>)

\* C14: a successful dequeue returns an index below len(), whatever index
\* the driver reported.
C14_DequeueIndexInBounds ==
    (last.op = "dequeue" /\ last.res.kind = "ok") => last.res.val < last.len

\* C15: the queue/dequeue cycle leaks no buffer: an index a dequeue returned
\* has left the driver's queue and is with the caller, and once queue(i)
\* succeeds the index i is in the driver's queue again, exactly once, where
\* a later dequeue returns it when the driver completes it.
C15_RequeuedComesBack ==
    /\ (last.op = "dequeue" /\ last.res.kind = "ok" /\ last.res.val < last.len)
           => last.res.val \notin Range(queued)
    /\ (last.op = "queue" /\ last.res.kind = "ok")
           => Cardinality({k \in 1..Len(queued) : queued[k] = last.arg}) = 1

\* index 0 of a one-buffer stream, dequeued once (frame 1) and submitted
\* again with queue(0) on the active stream
C15_Witness ==
    /\ last.op = "queue" /\ last.res.kind = "ok" /\ last.arg = 0
    /\ last.len = 1 /\ last.streaming
    /\ seqno = 1
    /\ queued = <<0>>

\* C16: after a successful start on N buffers, the first N next calls
\* return pairwise distinct indices, all in 0..N-1, with sequence numbers
\* that never decrease from call to call.
C16_FirstFramesDistinct ==
    nexts >= 0 =>
        /\ Len(frames) = nexts /\ nexts <= Arena_len(bufs)
        /\ \A i \in 1..Len(frames) : frames[i][1] \in 0..(Arena_len(bufs) - 1)
        /\ \A i, j \in 1..Len(frames) :
               i < j => (frames[i][1] # frames[j][1] /\ frames[i][2] <= frames[j][2])

C16_Witness ==
    /\ last.op = "next" /\ last.res.kind = "ok"
    /\ Arena_len(bufs) = MaxBufs
    /\ nexts = MaxBufs

\* C17: after a dequeue returned (i, m), get_meta(i) yields m.
C17_DequeueRecordsMeta ==
    (last.op = "dequeue" /\ last.res.kind = "ok" /\ last.res.val < Len(buf_meta))
        => StreamInt_get_meta(buf_meta, last.res.val) = Ok(last.meta)

\* C18: an allocate that fails after k mappings returns the error of the
\* failing call, issues no unmap, and leaves those k mappings tracked after
\* what the arena held before (len() = k on an arena that held nothing); a
\* release or teardown that then runs to the end unmaps every tracked region
\* once and leaves nothing mapped.
C18_FailedAllocateKeepsMappings ==
    /\ (last.op = "allocate" /\ last.res.kind = "err") =>
           /\ last.res.err = last.calls[Len(last.calls)].res
           /\ ~HasCall(last.calls, "munmap")
           /\ Arena_len(bufs) = last.len + Cardinality(Mapped(last.calls))
           /\ last.len = 0 => Range(bufs) = Mapped(last.calls)
           /\ Mapped(last.calls) \subseteq (Range(bufs) \cap mapped)
    /\ (last.op = "with_buffers" /\ last.res.kind = "err") =>
           /\ last.res.err = last.calls[Len(last.calls)].res
           /\ ~HasCall(last.calls, "munmap")
           /\ UnmapArgs(last.dropcalls) \subseteq Mapped(last.calls)
           /\ ~HasRes(last.dropcalls, "ENODEV") =>
                  /\ UnmapArgs(last.dropcalls) = Mapped(last.calls)
                  /\ Len(last.dropcalls) = Cardinality(Mapped(last.calls))
                         + (IF Mapped(last.calls) = {} THEN 0 ELSE 1)
                  /\ mapped = {}
    /\ (last.op = "release" /\ last.res.kind = "ok") =>
           /\ Cardinality(UnmapArgs(last.calls)) = last.len
           /\ Len(last.calls) = last.len + 1
           /\ mapped = {}
    /\ (last.op = "drop_arena" /\ last.res.kind = "ok"
            /\ ~HasRes(last.dropcalls, "ENODEV")) =>
           /\ Cardinality(UnmapArgs(last.dropcalls)) = last.len
           /\ mapped = {}

\* with_buffers whose allocate failed on the map call of the second buffer:
\* the one mapping made is unmapped by the teardown of the arena
C18_Witness ==
    /\ last.op = "with_buffers" /\ last.res.kind = "err"
    /\ Cardinality(Mapped(last.calls)) = 1
    /\ last.calls[Len(last.calls)].call = "mmap"
    /\ Unmapped(last.dropcalls) = Mapped(last.calls)
    /\ mapped = {}

\* C19: while a stream exists, it has as many metadata slots as its arena
\* has buffers.
C19_MetaSlotsMatchArena ==
    (stream = "live" /\ status # "dead") => Len(buf_meta) = Arena_len(bufs)

C19_Witness ==
    /\ stream = "live" /\ status = "live"
    /\ last.op = "next" /\ last.res.kind = "ok"
    /\ Len(buf_meta) = MaxBufs
    /\ last.arg = 1

====
